---- MODULE Spec2Model ----
(***************************************************************************)
(* Model of the dsf-synth LV2 plugin (src/src/lib.rs): the voice pool      *)
(* (active_tones), the sample clock (current_frame), the per-block run     *)
(* callback (parameter mapping, MIDI event drain, sample loop) and the     *)
(* activate / deactivate lifecycle hooks.                                  *)
(*                                                                         *)
(* Spec starts from Dsfsynth::new.  WrapSpec starts the same machine a few *)
(* frames before current_frame reaches 2^32; EnvelopeSpec runs the sample  *)
(* loop alone over ADSR settings with stage times of 0.                    *)
(*                                                                         *)
(* Numbers.  f32 quantities are modelled as exact rationals <<n, d>> with  *)
(* d > 0, kept in lowest terms; seconds are seconds, phases are counted in *)
(* turns (1 turn = TAU).  exp() is modelled by a table of rational         *)
(* approximations for the control values the model feeds in (ExpTimes).    *)
(* Option<T> is modelled as a sequence: None == << >>, Some(x) == <<x>>.   *)
(*                                                                         *)
(* A u32 (current_frame, frame_index, time_pressed, time_released) is held *)
(* as the integer in -2^31 .. 2^31 - 1 with the same 32 bits: 0 .. 2^31 - 1*)
(* stand for themselves, -k stands for 2^32 - k.  In this reading + and -  *)
(* are the wrapping u32 operations (the model stays away from +-2^31), and *)
(* the order of u32 is U32Lt / U32Le.  The frame differences envelope      *)
(* turns into f32 are in 0 .. 2^31 - 1 in every state the model reaches.   *)
(***************************************************************************)
EXTENDS Integers, Sequences, FiniteSets, TLC

VARIABLES
    adsr,           \* Dsfsynth::adsr
    brightness,     \* Dsfsynth::brightness
    gain,           \* Dsfsynth::gain
    input_channel,  \* Dsfsynth::input_channel (zero-based index)
    active_tones,   \* Dsfsynth::active_tones : note number -> Tone
    current_frame,  \* Dsfsynth::current_frame
    ports,          \* the control ports as the host filled them for the block
    atoms_left,     \* atoms of input_sequence the for loop has not visited yet
    atoms_read,     \* atoms of input_sequence the for loop has visited
    atom,           \* the for loop's (time stamp, message) of the latest iteration
    replaced,       \* what active_tones.insert returned in the latest iteration
    frame_index,    \* run's local frame_index
    sample_count,   \* run's argument sample_count
    finished_tones, \* run's local finished_tones of the latest sample
    value,          \* notes that added a term to the latest sample's value
    pc,             \* where the host's call stands
    op,             \* the host call made last
    adsr_moved      \* history: notes released before the block that last changed adsr

vars == <<adsr, brightness, gain, input_channel, active_tones, current_frame,
          ports, atoms_left, atoms_read, atom, replaced, frame_index,
          sample_count, finished_tones, value, pc, op, adsr_moved>>

----------------------------------------------------------------------------
(* Bounds of the model *)

MaxEvents == 2      \* atoms per block
MaxSamples == 3     \* samples per block
MaxFrame == 4       \* blocks are offered while current_frame stays <= MaxFrame

----------------------------------------------------------------------------
(* Rational arithmetic standing in for f32 *)

Abs(n) == IF n < 0 THEN 0 - n ELSE n

RECURSIVE GCD(_, _)
GCD(a, b) == IF b = 0 THEN a ELSE GCD(b, a % b)

Norm(n, d) ==
    LET g == GCD(Abs(n), d) IN <<n \div g, d \div g>>

Rat(n) == <<n, 1>>
Zero == <<0, 1>>
One == <<1, 1>>

RAdd(a, b) == Norm(a[1] * b[2] + b[1] * a[2], a[2] * b[2])
RSub(a, b) == Norm(a[1] * b[2] - b[1] * a[2], a[2] * b[2])
RMul(a, b) == Norm(a[1] * b[1], a[2] * b[2])
\* a / b for b # 0 (no division of the model has a zero divisor, see ads)
RDiv(a, b) ==
    IF b[1] > 0 THEN Norm(a[1] * b[2], a[2] * b[1])
    ELSE Norm((0 - a[1]) * b[2], a[2] * (0 - b[1]))
RLt(a, b) == a[1] * b[2] < b[1] * a[2]
RLe(a, b) == a[1] * b[2] <= b[1] * a[2]
\* the integer part, truncated toward zero
RTrunc(a) == IF a[1] >= 0 THEN a[1] \div a[2] ELSE 0 - ((0 - a[1]) \div a[2])
\* the fractional part of a non-negative rational: x.rem_euclid(1 turn)
RFrac(a) == Norm(a[1] % a[2], a[2])

None == << >>
Some(x) == <<x>>

----------------------------------------------------------------------------
(* u32 *)

\* a < b and a <= b as u32: the values below zero stand for 2^32 - k
U32Lt(a, b) == IF (a < 0) = (b < 0) THEN a < b ELSE b < 0
U32Le(a, b) == a = b \/ U32Lt(a, b)

\* a + b (b > 0) does not fit in a u32: the wrapped sum is below a
U32AddOverflows(a, b) == U32Lt(a + b, a)

----------------------------------------------------------------------------
(* Inputs of the model *)

Msg(k, c, n, v) == [kind |-> k, channel |-> c, note |-> n, velocity |-> v]

\* MIDI messages an atom can hold (channels zero-based; notes A4 = 69 and
\* A5 = 81); "NotMidi" is an atom that atom.read gives None for
Messages ==
    { Msg("NoteOn", 0, 69, 127), Msg("NoteOn", 0, 69, 64), Msg("NoteOn", 0, 81, 127),
      Msg("NoteOff", 0, 69, 0), Msg("NoteOff", 0, 81, 0),
      Msg("NoteOn", 1, 69, 127), Msg("NoteOff", 1, 69, 0),
      Msg("ControlChange", 0, 0, 0), Msg("NotMidi", 0, 0, 0) }

\* the atom the for loop visits k-th (k = 0, 1, ...): the sequence arrives in
\* time order, the k-th atom carries time stamp k
Atoms(k) == {<<k, m>> : m \in Messages}
NoAtom == <<0, Msg("NotMidi", 0, 0, 0)>>

\* the control ports of a block: raw control values (input_channel as a
\* rational, the others as whole controller values)
PortValues ==
    { [attack |-> 24, decay |-> 24, sustain |-> 64, release |-> 24,
       brightness |-> 64, gain |-> 0, input_channel |-> <<1, 1>>],
      [attack |-> 0, decay |-> 24, sustain |-> 127, release |-> 24,
       brightness |-> 127, gain |-> 0, input_channel |-> <<1, 1>>],
      [attack |-> 24, decay |-> 24, sustain |-> 64, release |-> 0,
       brightness |-> 64, gain |-> 0, input_channel |-> <<2, 1>>],
      [attack |-> 24, decay |-> 24, sustain |-> 64, release |-> 24,
       brightness |-> 64, gain |-> 0, input_channel |-> <<33, 2>>],
      [attack |-> 24, decay |-> 24, sustain |-> 64, release |-> 24,
       brightness |-> 64, gain |-> 0, input_channel |-> <<0, 1>>],
      [attack |-> 24, decay |-> 24, sustain |-> 64, release |-> 24,
       brightness |-> 64, gain |-> 0, input_channel |-> <<17, 1>>] }

----------------------------------------------------------------------------
(* Parameter mapping *)

samplerate == 1760

\* 2^k as a rational, k any integer
RECURSIVE Exp2(_)
Exp2(k) ==
    IF k = 0 THEN One
    ELSE IF k > 0 THEN RMul(Rat(2), Exp2(k - 1))
    ELSE RDiv(Exp2(k + 1), Rat(2))

\* 440 * 2^((note - 69) / 12), for the notes a whole number of octaves from A4
midi_note_to_pitch(note) == RMul(Exp2((note - 69) \div 12), Rat(440))

\* exp(val / 8 - 10) to within 0.1 per cent: e^-10, e^-7, e^-6; e^-135 is
\* below the least positive f32, so exp gives 0 for the control value -1000
ExpTimes == [val \in {0 - 1000, 0, 24, 32} |->
    CASE val = 0 - 1000 -> Zero
      [] val = 0 -> <<1, 22026>>
      [] val = 24 -> <<1, 1097>>
      [] val = 32 -> <<1, 403>>]

midi_val_to_time(val) == ExpTimes[val]

midi_val_to_ratio(val) == Norm(val, 127)

\* mutant of midi_vals_to_adsr: while a voice sounds the settings its note
\* started under stay in force
midi_vals_to_adsr_FrozenWhileSounding(attack, decay, sustain, release) ==
    IF DOMAIN active_tones # {} THEN adsr
    ELSE [attack |-> midi_val_to_time(attack),
          decay |-> midi_val_to_time(decay),
          sustain |-> midi_val_to_ratio(sustain),
          release |-> midi_val_to_time(release)]

midi_vals_to_adsr(attack, decay, sustain, release) ==
    [attack |-> midi_val_to_time(attack),
     decay |-> midi_val_to_time(decay),
     sustain |-> midi_val_to_ratio(sustain),
     release |-> midi_val_to_time(release)]

\* TAU * pitch / samplerate, in turns
phase_increment_from_pitch(pitch) == RDiv(pitch, Rat(samplerate))

\* f32 as u8: truncation toward zero, saturating at 0 and 255
AsU8(x) ==
    LET t == RTrunc(x) IN IF t < 0 THEN 0 ELSE IF t > 255 THEN 255 ELSE t

\* x - 1u8: 0 - 1 overflows; a build without overflow checks wraps to 255, a
\* build with them panics there (ChannelIndexOverflows)
U8Sub1(x) == (x + 255) % 256
ChannelIndexOverflows(p) == AsU8(p.input_channel) = 0

\* mutant of from_index: the index is wrapped into 0..15 instead of refused
from_index_Wrapping(index) == Some(index % 16)

\* wmidi::Channel::from_index: Ok for 0..15, Err otherwise
from_index(index) == IF index <= 15 THEN Some(index) ELSE None

\* the Result that run unwraps into self.input_channel
ChannelOf(p) == from_index(U8Sub1(AsU8(p.input_channel)))

----------------------------------------------------------------------------
(* Oscillator *)

\* sin and cos of a phase in turns, for the phases the notes of the model
\* reach (whole quarter turns)
sin(x) ==
    CASE RFrac(x) = Zero -> Zero
      [] RFrac(x) = <<1, 4>> -> One
      [] RFrac(x) = <<1, 2>> -> Zero
      [] RFrac(x) = <<3, 4>> -> Rat(0 - 1)

cos(x) ==
    CASE RFrac(x) = Zero -> One
      [] RFrac(x) = <<1, 4>> -> Zero
      [] RFrac(x) = <<1, 2>> -> Rat(0 - 1)
      [] RFrac(x) = <<3, 4>> -> Zero

\* the divisor of dsf_inf: 1 + w * w - 2 * w * cos(v)
dsf_inf_divisor(w, v) ==
    RSub(RAdd(One, RMul(w, w)), RMul(RMul(Rat(2), w), cos(v)))

\* the f32 values that are no numbers, written with the denominator 0
NaN == <<0, 0>>
Infinity(sign) == <<sign, 0>>

\* (sin(u) - w * sin(u - v)) / (1 + w * w - 2 * w * cos(v)); an f32 division
\* by zero gives NaN for 0 / 0 and an infinity otherwise
dsf_inf(w, u, v) ==
    LET dividend == RSub(sin(u), RMul(w, sin(RSub(u, v))))
        divisor == dsf_inf_divisor(w, v)
    IN  IF divisor # Zero THEN RDiv(dividend, divisor)
        ELSE IF dividend = Zero THEN NaN
        ELSE Infinity(IF RLt(Zero, dividend) THEN 1 ELSE 0 - 1)

----------------------------------------------------------------------------
(* Envelope *)

\* mutant of ads: the decay stage is timed from the press, not from the end
\* of the attack
ads_DecayFromPress(a, time) ==
    IF RLt(time, a.attack) THEN RDiv(time, a.attack)
    ELSE LET decay_time == RMul(a.decay, RSub(One, a.sustain))
         IN  IF RLt(time, RAdd(a.attack, decay_time))
             THEN RSub(One, RDiv(time, a.decay))
             ELSE a.sustain

\* mutant of ads: the attack starts from the sustain level, not from 0
ads_AttackFromSustain(a, time) ==
    IF RLt(time, a.attack)
    THEN RAdd(a.sustain, RMul(RSub(One, a.sustain), RDiv(time, a.attack)))
    ELSE LET decay_time == RMul(a.decay, RSub(One, a.sustain))
         IN  IF RLt(time, RAdd(a.attack, decay_time))
             THEN RSub(One, RDiv(RSub(time, a.attack), a.decay))
             ELSE a.sustain

ads(a, time) ==
    IF RLt(time, a.attack) THEN RDiv(time, a.attack)
    ELSE LET decay_time == RMul(a.decay, RSub(One, a.sustain))
         IN  IF RLt(time, RAdd(a.attack, decay_time))
             THEN RSub(One, RDiv(RSub(time, a.attack), a.decay))
             ELSE a.sustain

\* mutant of envelope: time <= release_time keeps the voice one frame longer
envelope_LateRelease(tone, frame, a, rate) ==
    IF tone.time_released # None
    THEN LET released == tone.time_released[1]
             time == RDiv(Rat(frame - released), Rat(rate))
             time_at_release == RDiv(Rat(released - tone.time_pressed), Rat(rate))
             val_at_release == ads(a, time_at_release)
             release_time == RMul(a.release, val_at_release)
         IN  IF RLe(time, release_time)
             THEN Some(RSub(val_at_release, RDiv(time, a.release)))
             ELSE None
    ELSE LET time == RDiv(Rat(frame - tone.time_pressed), Rat(rate))
         IN  Some(ads(a, time))

envelope(tone, frame, a, rate) ==
    IF tone.time_released # None
    THEN LET released == tone.time_released[1]
             time == RDiv(Rat(frame - released), Rat(rate))
             time_at_release == RDiv(Rat(released - tone.time_pressed), Rat(rate))
             val_at_release == ads(a, time_at_release)
             release_time == RMul(a.release, val_at_release)
         IN  IF RLt(time, release_time)
             THEN Some(RSub(val_at_release, RDiv(time, a.release)))
             ELSE None
    ELSE LET time == RDiv(Rat(frame - tone.time_pressed), Rat(rate))
         IN  Some(ads(a, time))

\* mutant of ads_stage: time <= adsr.attack takes the attack branch
ads_stage_AttackInclusive(a, time) ==
    IF RLe(time, a.attack) THEN "attack"
    ELSE LET decay_time == RMul(a.decay, RSub(One, a.sustain))
         IN  IF RLt(time, RAdd(a.attack, decay_time)) THEN "decay"
             ELSE "sustain"

\* the branch of ads that returns (lines 91, 95, 97)
ads_stage(a, time) ==
    IF RLt(time, a.attack) THEN "attack"
    ELSE LET decay_time == RMul(a.decay, RSub(One, a.sustain))
         IN  IF RLt(time, RAdd(a.attack, decay_time)) THEN "decay"
             ELSE "sustain"

\* the divisors of the divisions a call of ads executes
ads_divisors(a, time) ==
    CASE ads_stage(a, time) = "attack" -> {a.attack}
      [] ads_stage(a, time) = "decay" -> {a.decay}
      [] OTHER -> {}

\* the divisors of the divisions a call of envelope executes, those of its
\* call of ads included
envelope_divisors(tone, frame, a, rate) ==
    IF tone.time_released # None
    THEN LET released == tone.time_released[1]
             time == RDiv(Rat(frame - released), Rat(rate))
             time_at_release == RDiv(Rat(released - tone.time_pressed), Rat(rate))
             val_at_release == ads(a, time_at_release)
             release_time == RMul(a.release, val_at_release)
         IN  {Rat(rate)} \cup ads_divisors(a, time_at_release)
               \cup (IF RLt(time, release_time) THEN {a.release} ELSE {})
    ELSE LET time == RDiv(Rat(frame - tone.time_pressed), Rat(rate))
         IN  {Rat(rate)} \cup ads_divisors(a, time)

----------------------------------------------------------------------------
(* The voice pool *)

\* HashMap::insert
Insert(m, k, v) == [n \in DOMAIN m \cup {k} |-> IF n = k THEN v ELSE m[n]]
\* HashMap::remove of every key in ks
RemoveAll(m, ks) == [n \in DOMAIN m \ ks |-> m[n]]
EmptyMap == [n \in {} |-> 0]

\* the Tone a note-on inserts
NewTone(note, velocity, frame) ==
    [phase_increment |-> phase_increment_from_pitch(midi_note_to_pitch(note)),
     time_pressed |-> frame,
     time_released |-> None,
     velocity |-> midi_val_to_ratio(velocity),
     phase |-> Zero]

\* mutant of EventFrame: the atom's time stamp is honoured inside the block
EventFrame_Stamped(stamp) == current_frame + stamp

\* the frame a note event is applied at: the atom's time stamp is not read
EventFrame(stamp) == current_frame

\* mutant of NoteOn: entry(note).or_insert instead of insert, so a re-trigger
\* leaves the existing voice as it is
NoteOn_KeepExisting(tones, m, stamp) ==
    IF m.channel = input_channel /\ m.note \notin DOMAIN tones
    THEN Insert(tones, m.note, NewTone(m.note, m.velocity, current_frame))
    ELSE tones

NoteOn(tones, m, stamp) ==
    IF m.channel = input_channel
    THEN Insert(tones, m.note, NewTone(m.note, m.velocity, EventFrame(stamp)))
    ELSE tones

\* mutant of NoteOff: a note-off the pool has no voice for inserts a released one
NoteOff_Inserting(tones, m, stamp) ==
    IF m.channel = input_channel
    THEN IF m.note \in DOMAIN tones
         THEN [tones EXCEPT ![m.note].time_released = Some(current_frame)]
         ELSE Insert(tones, m.note,
                     [NewTone(m.note, 0, current_frame)
                        EXCEPT !.time_released = Some(current_frame)])
    ELSE tones

\* mutant of NoteOff: a note-off for a voice that is releasing already cuts it
NoteOff_CuttingReleasing(tones, m, stamp) ==
    IF m.channel = input_channel /\ m.note \in DOMAIN tones
    THEN IF tones[m.note].time_released # None
         THEN RemoveAll(tones, {m.note})
         ELSE [tones EXCEPT ![m.note].time_released = Some(current_frame)]
    ELSE tones

NoteOff(tones, m, stamp) ==
    IF m.channel = input_channel /\ m.note \in DOMAIN tones
    THEN [tones EXCEPT ![m.note].time_released = Some(EventFrame(stamp))]
    ELSE tones

\* the body of the for loop over input_sequence, for one atom
ApplyAtom(tones, at) ==
    LET stamp == at[1]
        m == at[2]
    IN  CASE m.kind = "NoteOn" -> NoteOn(tones, m, stamp)
          [] m.kind = "NoteOff" -> NoteOff(tones, m, stamp)
          [] OTHER -> tones

\* the Option<Tone> that insert returns for a note-on the engine accepts (the
\* code drops it); None for every other atom
Replaced(tones, at) ==
    LET m == at[2]
    IN  IF m.kind = "NoteOn" /\ m.channel = input_channel /\ m.note \in DOMAIN tones
        THEN Some(tones[m.note])
        ELSE None

\* the notes whose voice the atom creates anew or releases
Touched(tones, at) ==
    LET m == at[2]
    IN  IF m.channel = input_channel
           /\ (m.kind = "NoteOn" \/ (m.kind = "NoteOff" /\ m.note \in DOMAIN tones))
        THEN {m.note}
        ELSE {}

\* the notes whose voice has had its note-off
ReleasingNotes(tones) == {n \in DOMAIN tones : tones[n].time_released # None}

\* mutant of Finished: a voice whose envelope is 0 is finished too
Finished_SilentVoices(tones, frame) ==
    {n \in DOMAIN tones :
        envelope(tones[n], frame, adsr, samplerate) \in {None, Some(Zero)}}

\* the voices whose envelope is None at frame: finished_tones
Finished(tones, frame) ==
    {n \in DOMAIN tones : envelope(tones[n], frame, adsr, samplerate) = None}

\* mutant of AdvancePhase: the pitch glides, every pass doubles the increment
AdvancePhase_Gliding(tone) ==
    [tone EXCEPT !.phase = RFrac(RAdd(tone.phase, tone.phase_increment)),
                 !.phase_increment = RFrac(RMul(Rat(2), tone.phase_increment))]

\* tone.phase = (tone.phase + tone.phase_increment).rem_euclid(TAU)
AdvancePhase(tone) ==
    [tone EXCEPT !.phase = RFrac(RAdd(tone.phase, tone.phase_increment))]

\* mutant of AfterSample: the finished voices are collected but never removed
AfterSample_NoRemoval(tones, frame) ==
    LET done == Finished(tones, frame)
    IN  [n \in DOMAIN tones |-> IF n \in done THEN tones[n] ELSE AdvancePhase(tones[n])]

\* the voice pool after one pass of the sample loop's body
AfterSample(tones, frame) ==
    LET done == Finished(tones, frame)
    IN  [n \in DOMAIN tones \ done |-> AdvancePhase(tones[n])]

----------------------------------------------------------------------------
(* State machine *)

\* Dsfsynth::new; -6f32.exp() is -(e^6) = -403.43
Init ==
    /\ adsr = [attack |-> <<0 - 40343, 100>>, decay |-> <<0 - 40343, 100>>,
               sustain |-> <<64, 127>>, release |-> <<0 - 40343, 100>>]
    /\ brightness = <<64, 127>>
    /\ gain = 0
    /\ input_channel = 0
    /\ active_tones = EmptyMap
    /\ current_frame = 0
    /\ ports = [attack |-> 0, decay |-> 0, sustain |-> 0, release |-> 0,
                brightness |-> 0, gain |-> 0, input_channel |-> <<0, 1>>]
    /\ atoms_left = 0
    /\ atoms_read = 0
    /\ atom = NoAtom
    /\ replaced = None
    /\ frame_index = 0
    /\ sample_count = 0
    /\ finished_tones = {}
    /\ value = {}
    /\ pc = "idle"
    /\ op = "new"
    /\ adsr_moved = {}

\* run, lines 150-164: the parameters are mapped, the channel unwrapped, the
\* atom sequence read
RunBegin ==
    /\ pc = "idle"
    /\ \E p \in PortValues, atoms \in 0..MaxEvents :
        LET new_adsr == midi_vals_to_adsr(p.attack, p.decay, p.sustain, p.release)
            channel == ChannelOf(p)
        IN  /\ ports' = p
            /\ adsr' = new_adsr
            /\ brightness' = midi_val_to_ratio(p.brightness)
            /\ gain' = p.gain
            /\ op' = "run"
            /\ adsr_moved' = IF new_adsr = adsr THEN adsr_moved
                              ELSE ReleasingNotes(active_tones)
            /\ IF ChannelIndexOverflows(p) \/ channel = None
               THEN /\ pc' = "panicked"
                    /\ UNCHANGED <<input_channel, atoms_left, atoms_read>>
               ELSE /\ pc' = "drain"
                    /\ input_channel' = channel[1]
                    /\ atoms_left' = atoms
                    /\ atoms_read' = 0
    /\ UNCHANGED <<active_tones, current_frame, atom, replaced, frame_index,
                   sample_count, finished_tones, value>>

\* run, lines 166-198: one iteration of the for loop over input_sequence
Drain ==
    /\ pc = "drain"
    /\ atoms_left > 0
    /\ \E next \in Atoms(atoms_read) :
        /\ atom' = next
        /\ active_tones' = ApplyAtom(active_tones, next)
        /\ replaced' = Replaced(active_tones, next)
        /\ adsr_moved' = adsr_moved \ Touched(active_tones, next)
    /\ atoms_left' = atoms_left - 1
    /\ atoms_read' = atoms_read + 1
    /\ UNCHANGED <<adsr, brightness, gain, input_channel, current_frame, ports,
                   frame_index, sample_count, finished_tones, value, pc, op>>

\* run, lines 200-204: the for loop is over and its atom out of scope;
\* frame_index starts at current_frame, and the output buffers (whose length
\* is the sample_count argument, first read here) are about to be filled
StartSamples ==
    /\ pc = "drain"
    /\ atoms_left = 0
    /\ \E count \in 0..MaxSamples :
        /\ current_frame + count <= MaxFrame
        /\ sample_count' = count
    /\ frame_index' = current_frame
    /\ pc' = "samples"
    /\ atoms_read' = 0
    /\ atom' = NoAtom
    /\ replaced' = None
    /\ finished_tones' = {}
    /\ value' = {}
    /\ UNCHANGED <<adsr, brightness, gain, input_channel, active_tones,
                   current_frame, ports, atoms_left, op, adsr_moved>>

\* run, lines 205-221: one output frame
Sample ==
    /\ pc = "samples"
    /\ frame_index - current_frame < sample_count
    /\ finished_tones' = Finished(active_tones, frame_index)
    /\ value' = DOMAIN active_tones \ Finished(active_tones, frame_index)
    /\ active_tones' = AfterSample(active_tones, frame_index)
    /\ adsr_moved' = adsr_moved \ Finished(active_tones, frame_index)
    \* line 221, frame_index += 1: when the sum does not fit in a u32, a build
    \* with overflow checks panics there, a build without them wraps to 0
    /\ \E overflow_checks \in
            (IF U32AddOverflows(frame_index, 1) THEN BOOLEAN ELSE {FALSE}) :
         IF overflow_checks
         THEN pc' = "panicked" /\ frame_index' = frame_index
         ELSE pc' = pc /\ frame_index' = frame_index + 1
    /\ UNCHANGED <<adsr, brightness, gain, input_channel, current_frame, ports,
                   atoms_left, atoms_read, atom, replaced, sample_count, op>>

\* run, line 223: the output buffers are full, the clock advances.  When the
\* sum does not fit in a u32, frame_index += 1 did not fit either in one of
\* the block's passes: a build with overflow checks has panicked there, so
\* the sum is the wrapped one of a build without them
RunEnd ==
    /\ pc = "samples"
    /\ frame_index - current_frame = sample_count
    /\ current_frame' = current_frame + sample_count
    /\ pc' = "idle"
    \* run's locals and arguments go out of scope
    /\ frame_index' = 0
    /\ sample_count' = 0
    /\ finished_tones' = {}
    /\ value' = {}
    /\ UNCHANGED <<adsr, brightness, gain, input_channel, active_tones, ports,
                   atoms_left, atoms_read, atom, replaced, op, adsr_moved>>

\* mutant of Reset: the voices are cleared, the clock keeps running
Reset_KeepClock ==
    /\ active_tones' = EmptyMap
    /\ current_frame' = current_frame

\* the body activate and deactivate share
Reset ==
    /\ active_tones' = EmptyMap
    /\ current_frame' = 0

Activate ==
    /\ pc = "idle"
    /\ Reset
    /\ op' = "activate"
    /\ adsr_moved' = {}
    /\ UNCHANGED <<adsr, brightness, gain, input_channel, ports, atoms_left,
                   atoms_read, atom, replaced, frame_index, sample_count,
                   finished_tones, value, pc>>

Deactivate ==
    /\ pc = "idle"
    /\ Reset
    /\ op' = "deactivate"
    /\ adsr_moved' = {}
    /\ UNCHANGED <<adsr, brightness, gain, input_channel, ports, atoms_left,
                   atoms_read, atom, replaced, frame_index, sample_count,
                   finished_tones, value, pc>>

Next ==
    \/ RunBegin
    \/ Drain
    \/ StartSamples
    \/ Sample
    \/ RunEnd
    \/ Activate
    \/ Deactivate

Spec == Init /\ [][Next]_vars

\* the engine MaxSamples - 1 frames before current_frame reaches 2^32: new,
\* then blocks without events that add up to 2^32 - (MaxSamples - 1) frames,
\* the last of them with the control values QuietPorts
QuietPorts ==
    [attack |-> 24, decay |-> 24, sustain |-> 64, release |-> 24,
     brightness |-> 64, gain |-> 0, input_channel |-> <<1, 1>>]

WrapInit ==
    /\ ports = QuietPorts
    /\ adsr = midi_vals_to_adsr(QuietPorts.attack, QuietPorts.decay,
                                QuietPorts.sustain, QuietPorts.release)
    /\ brightness = midi_val_to_ratio(QuietPorts.brightness)
    /\ gain = QuietPorts.gain
    /\ input_channel = ChannelOf(QuietPorts)[1]
    /\ active_tones = EmptyMap
    /\ current_frame = 0 - (MaxSamples - 1)
    /\ atoms_left = 0
    /\ atoms_read = 0
    /\ atom = NoAtom
    /\ replaced = None
    /\ frame_index = 0
    /\ sample_count = 0
    /\ finished_tones = {}
    /\ value = {}
    /\ pc = "idle"
    /\ op = "run"
    /\ adsr_moved = {}

WrapSpec == WrapInit /\ [][Next]_vars

\* the sample loop on its own, for the envelope as a function of its
\* arguments: a block has mapped its control values, stage times of 0 among
\* them, drained its atoms, and is about to compute its first frame with one
\* voice in the pool, pressed and possibly released in this or an earlier
\* block and sounding since
EnvelopePorts ==
    { [attack |-> a, decay |-> d, sustain |-> s, release |-> r,
       brightness |-> 64, gain |-> 0, input_channel |-> <<1, 1>>] :
      a \in {0 - 1000, 24}, d \in {0 - 1000, 24}, s \in {0, 64, 127},
      r \in {0 - 1000, 24} }

EnvelopeInit ==
    /\ \E p \in EnvelopePorts :
        /\ ports = p
        /\ adsr = midi_vals_to_adsr(p.attack, p.decay, p.sustain, p.release)
        /\ brightness = midi_val_to_ratio(p.brightness)
        /\ gain = p.gain
        /\ input_channel = ChannelOf(p)[1]
    /\ \E count \in 1..MaxSamples, first \in 0..MaxFrame :
        /\ first + count <= MaxFrame
        /\ current_frame = first
        /\ sample_count = count
    /\ frame_index = current_frame
    /\ \E pressed \in 0..current_frame :
        \E released \in {None} \cup {Some(f) : f \in pressed..current_frame} :
            LET tone == NewTone(69, 127, pressed)
            IN  active_tones =
                  Insert(EmptyMap, 69,
                         [tone EXCEPT
                            !.time_released = released,
                            !.phase = RFrac(RMul(Rat(current_frame - pressed),
                                                 tone.phase_increment))])
    /\ atoms_left = 0
    /\ atoms_read = 0
    /\ atom = NoAtom
    /\ replaced = None
    /\ finished_tones = {}
    /\ value = {}
    /\ pc = "samples"
    /\ op = "run"
    /\ adsr_moved = {}

EnvelopeSpec == EnvelopeInit /\ [][Sample]_vars

----------------------------------------------------------------------------
(* Vocabulary of the properties *)

\* the number of frames processed so far: the next frame to be computed
Clock == IF pc = "samples" THEN frame_index ELSE current_frame

\* the latest step was an iteration of the for loop over the atoms
AtomApplied == pc = "drain" /\ atoms_read > 0
Message == atom[2]
Accepted(m) == m.kind \in {"NoteOn", "NoteOff"} /\ m.channel = input_channel

Releasing(tone) == tone.time_released # None

\* the least integer >= a rational
RCeil(a) == 0 - ((0 - a[1]) \div a[2])

\* a number of frames as seconds
Seconds(frames) == RDiv(Rat(frames), Rat(samplerate))

\* releaseTime * sampleRate of a releasing voice under the current ADSR
ReleaseFrames(tone) ==
    RMul(RMul(adsr.release,
              ads(adsr, Seconds(tone.time_released[1] - tone.time_pressed))),
         Rat(samplerate))

\* the longest release the control values of the model give, in frames: the
\* level at release is at most 1
MaxReleaseFrames ==
    LET frames == {RCeil(RMul(midi_val_to_time(p.release), Rat(samplerate))) :
                     p \in PortValues}
    IN  CHOOSE k \in frames : \A j \in frames : j <= k

----------------------------------------------------------------------------
(* C1: a note-on on the selected channel leaves the voice of its note with
   phase 0, time_pressed = current_frame, time_released = None and the
   event's velocity / 127, whatever voice the note had before. *)
C1_NoteOnStartsFreshVoice ==
    (AtomApplied /\ Message.kind = "NoteOn" /\ Message.channel = input_channel)
    => /\ Message.note \in DOMAIN active_tones
       /\ LET tone == active_tones[Message.note]
          IN  /\ tone.phase = Zero
              /\ tone.time_pressed = current_frame
              /\ tone.time_released = None
              /\ RMul(tone.velocity, Rat(127)) = Rat(Message.velocity)

\* a releasing voice whose phase had advanced is re-triggered
C1_Witness ==
    /\ AtomApplied /\ Message.kind = "NoteOn" /\ Message.channel = input_channel
    /\ replaced # None
    /\ Releasing(replaced[1])
    /\ replaced[1].phase # Zero
    /\ replaced[1].time_pressed < current_frame
    /\ active_tones[Message.note].phase = Zero

(* C2: once a voice is releasing, a further note-off for its note on the
   selected channel leaves its time_released unchanged. *)
C2_FirstNoteOffWins ==
    [][(/\ pc = "drain" /\ pc' = "drain" /\ atoms_read' = atoms_read + 1
        /\ atom'[2].kind = "NoteOff" /\ atom'[2].channel = input_channel
        /\ atom'[2].note \in DOMAIN active_tones
        /\ Releasing(active_tones[atom'[2].note]))
       => /\ atom'[2].note \in DOMAIN active_tones'
          /\ active_tones'[atom'[2].note].time_released
               = active_tones[atom'[2].note].time_released]_vars

(* C3: no releasing voice stays in the pool for more than MaxReleaseFrames
   processed frames after its note-off; so once every note that was started
   has been released and more than MaxReleaseFrames further samples have been
   processed, the pool is empty. *)
C3_ReleasedVoicesLeaveThePool ==
    /\ \A n \in DOMAIN active_tones :
         Releasing(active_tones[n])
         => Clock - active_tones[n].time_released[1] <= MaxReleaseFrames
    /\ (/\ \A n \in DOMAIN active_tones : Releasing(active_tones[n])
        /\ \A n \in DOMAIN active_tones :
             Clock - active_tones[n].time_released[1] > MaxReleaseFrames)
       => active_tones = EmptyMap

\* two distinct notes, both released, leave the pool and leave it empty
C3_Witness ==
    /\ pc = "samples"
    /\ Cardinality(finished_tones) = 2
    /\ active_tones = EmptyMap
    /\ frame_index > 2

(* C4 as stated: with the ADSR unchanged since the note-off, a releasing voice
   is out of the pool once ceil(releaseTime * sampleRate) frames have been
   processed from the note-off frame on. *)
ConstantSinceRelease(n) == n \notin adsr_moved

C4_GoneAfterCeilFrames ==
    \A n \in DOMAIN active_tones :
        LET tone == active_tones[n]
        IN  (Releasing(tone) /\ ConstantSinceRelease(n))
            => ~(Clock - tone.time_released[1] >= RCeil(ReleaseFrames(tone)))

(* C4 amended: with the ADSR unchanged since the note-off, a releasing voice
   is out of the pool once ceil(releaseTime * sampleRate) + 1 frames have been
   processed from the note-off frame on: the frame time_released + ceil(...)
   is the one whose processing removes it. *)
C4_GoneAfterCeilPlusOneFrames ==
    \A n \in DOMAIN active_tones :
        LET tone == active_tones[n]
        IN  (Releasing(tone) /\ ConstantSinceRelease(n))
            => ~(Clock - tone.time_released[1] >= RCeil(ReleaseFrames(tone)) + 1)

\* a voice released in an earlier block has lived through exactly
\* ceil(releaseTime * sampleRate) = 2 frames since, and the sample loop is
\* about to compute the frame that removes it
C4_Witness ==
    /\ pc = "samples"
    /\ frame_index - current_frame < sample_count
    /\ \E n \in DOMAIN active_tones :
         LET tone == active_tones[n]
         IN  /\ Releasing(tone) /\ ConstantSinceRelease(n)
             /\ tone.time_released[1] < current_frame
             /\ RCeil(ReleaseFrames(tone)) = 2
             /\ Clock - tone.time_released[1] = 2
             /\ n \in Finished(active_tones, frame_index)

(* C5: for a voice of the pool the sample loop works on, a frame at or after
   the one it computes and the ADSR of control values in 0..127, envelope is
   None exactly when the voice is releasing and the frames since the release
   are at least releaseTime * sampleRate; every other envelope is a value
   >= 0. *)
ControlsInRange ==
    \A c \in {ports.attack, ports.decay, ports.sustain, ports.release} :
        0 <= c /\ c <= 127

C5_EnvelopeAbsentIffDecayed ==
    (ControlsInRange /\ pc = "samples")
    => \A n \in DOMAIN active_tones :
         \A f \in frame_index..(frame_index + MaxReleaseFrames) :
            LET tone == active_tones[n]
                e == envelope(tone, f, adsr, samplerate)
                decayed ==
                    /\ Releasing(tone)
                    /\ RLe(ReleaseFrames(tone), Rat(f - tone.time_released[1]))
            IN  /\ (e = None) <=> decayed
                /\ e # None => RLe(Zero, e[1])

\* a releasing voice that still sounds at this frame and is absent at the next
C5_Witness ==
    \E n \in DOMAIN active_tones :
        LET tone == active_tones[n]
        IN  /\ Releasing(tone)
            /\ tone.time_pressed < tone.time_released[1]
            /\ envelope(tone, Clock, adsr, samplerate) # None
            /\ RLt(Zero, envelope(tone, Clock, adsr, samplerate)[1])
            /\ envelope(tone, Clock + 1, adsr, samplerate) = None

(* C6: after activate and after deactivate the voice pool is empty and
   current_frame is 0. *)
C6_HooksResetVoicesAndClock ==
    op \in {"activate", "deactivate"}
    => /\ active_tones = EmptyMap
       /\ current_frame = 0
       /\ pc = "idle"

\* deactivate has run after a block that selected channel 2
C6_Witness ==
    /\ op = "deactivate"
    /\ input_channel = 1
    /\ ports.input_channel = <<2, 1>>
    /\ active_tones = EmptyMap
    /\ current_frame = 0

(* C7: an atom that is no note-on or note-off, a note event on a channel other
   than the selected one and a note-off for a note without a voice each leave
   the voice pool as it was. *)
Ignored(m, tones) ==
    \/ m.kind \notin {"NoteOn", "NoteOff"}
    \/ m.channel # input_channel
    \/ m.kind = "NoteOff" /\ m.note \notin DOMAIN tones

C7_IgnoredAtomsChangeNothing ==
    [][(/\ pc = "drain" /\ pc' = "drain" /\ atoms_read' = atoms_read + 1
        /\ Ignored(atom'[2], active_tones))
       => active_tones' = active_tones]_vars

\* a note-off for a note without a voice has been visited while another note
\* sounds
C7_Witness ==
    /\ AtomApplied
    /\ Message.kind = "NoteOff" /\ Message.channel = input_channel
    /\ Message.note \notin DOMAIN active_tones
    /\ active_tones # EmptyMap

(* C8: no sample of a block is computed, and no block ends, with an atom of
   the block unvisited; a note-on or note-off the engine accepts stamps the
   voice with the block's current_frame whatever the atom's time stamp. *)
C8_AtomsDrainedBeforeSamples ==
    /\ pc \in {"samples", "idle"} => atoms_left = 0
    /\ (AtomApplied /\ Accepted(Message) /\ Message.kind = "NoteOn")
       => /\ Message.note \in DOMAIN active_tones
          /\ active_tones[Message.note].time_pressed = current_frame
    /\ (AtomApplied /\ Accepted(Message) /\ Message.kind = "NoteOff"
        /\ Message.note \in DOMAIN active_tones)
       => active_tones[Message.note].time_released = Some(current_frame)

\* the second atom of a block, time stamp 1, has released a voice
C8_Witness ==
    /\ AtomApplied
    /\ atom[1] = 1
    /\ Accepted(Message) /\ Message.kind = "NoteOff"
    /\ Message.note \in DOMAIN active_tones
    /\ active_tones[Message.note].time_released = Some(current_frame)
    /\ current_frame > 0

(* C9 as stated: a block whose raw input-channel control value is outside
   1..16 panics, and no atom of it is applied. *)
RunStarts == pc = "idle" /\ pc' # "idle"

C9_OutOfRangeChannelAborts ==
    [][(/\ RunStarts
        /\ \/ RLt(ports'.input_channel, Rat(1))
           \/ RLt(Rat(16), ports'.input_channel))
       => pc' = "panicked" /\ active_tones' = active_tones]_vars

(* C9 amended: a block whose raw input-channel control value has an integer
   part (truncation toward zero) outside 1..16, that is a value below 1 or at
   least 17, panics, and no atom of it is applied. *)
C9_TruncatedOutOfRangeChannelAborts ==
    [][(/\ RunStarts
        /\ \/ RLt(ports'.input_channel, Rat(1))
           \/ RLe(Rat(17), ports'.input_channel))
       => pc' = "panicked" /\ active_tones' = active_tones]_vars

\* a block with control value 17 has panicked with a voice in the pool
C9_Witness ==
    /\ pc = "panicked"
    /\ ports.input_channel = <<17, 1>>
    /\ active_tones # EmptyMap
    /\ atoms_read = 0

(* C10: no block ends in a panic. *)
C10_NoBlockPanics == pc # "panicked"

(* C11: for a brightness control value in 0..127 the brightness of the block
   is strictly below 1, and at the phase of every voice of the pool the
   divisor of dsf_inf is non-zero and its value a number. *)
C11_BrightnessBelowOne ==
    (0 <= ports.brightness /\ ports.brightness <= 127)
    => /\ RLt(brightness, One)
       /\ \A n \in DOMAIN active_tones :
            LET phase == active_tones[n].phase
            IN  /\ dsf_inf_divisor(brightness, phase) # Zero
                /\ dsf_inf(brightness, phase, phase)[2] # 0

(* C12: from one reset to the next current_frame never decreases as a u32:
   every block that ends leaves it at its value before the block plus the
   block's sample_count, and that value is not below the value before. *)
C12_ClockNeverDecreases ==
    [][(pc = "samples" /\ pc' = "idle")
       => /\ current_frame' = current_frame + sample_count
          /\ U32Le(current_frame, current_frame')]_vars

(* C13: with a stage time of 0 no division of envelope, or of the ads it
   calls, has the divisor 0 for a voice the sample loop is at; with attack 0
   ads is never in its attack branch, with decay 0 never in its decay branch
   (past the attack it gives the sustain level), and with release 0 the
   envelope of a releasing voice is None. *)
C13_ZeroStagesNeverDivideByZero ==
    pc = "samples"
    => \A n \in DOMAIN active_tones :
         LET tone == active_tones[n]
             held == Seconds(frame_index - tone.time_pressed)
             times == {held} \cup
                      (IF Releasing(tone)
                       THEN {Seconds(tone.time_released[1] - tone.time_pressed)}
                       ELSE {})
         IN  /\ \A d \in envelope_divisors(tone, frame_index, adsr, samplerate) :
                  d # Zero
             /\ \A t \in times :
                  /\ \A d \in ads_divisors(adsr, t) : d # Zero
                  /\ adsr.attack = Zero => ads_stage(adsr, t) # "attack"
                  /\ adsr.decay = Zero
                     => /\ ads_stage(adsr, t) # "decay"
                        /\ RLe(adsr.attack, t) => ads(adsr, t) = adsr.sustain
                  /\ (adsr.attack = Zero /\ adsr.decay # Zero /\ t = Zero
                      /\ adsr.sustain # One)
                     => ads_stage(adsr, t) = "decay" /\ ads(adsr, t) = One
             /\ (adsr.release = Zero /\ Releasing(tone))
                => envelope(tone, frame_index, adsr, samplerate) = None

\* attack, decay and release are all 0, and a voice released at the frame it
\* was pressed at has been removed by the pass over that frame
C13_Witness ==
    /\ adsr.attack = Zero /\ adsr.decay = Zero /\ adsr.release = Zero
    /\ pc = "samples"
    /\ frame_index = current_frame + 1
    /\ finished_tones = {69}
    /\ active_tones = EmptyMap

(* C14: a voice holds no ADSR of its own, and in every pass of the sample
   loop the envelope of a voice, and with it the decision to remove the
   voice, is the function EnvelopeOf of the voice's time_pressed and
   time_released, the frame, the sample rate and the control values of the
   block being processed alone: whatever the control values of earlier blocks
   were, runs that agree on these agree on the envelope. *)
EnvelopeOf(pressed, released, frame, p) ==
    envelope([time_pressed |-> pressed, time_released |-> released], frame,
             [attack |-> midi_val_to_time(p.attack),
              decay |-> midi_val_to_time(p.decay),
              sustain |-> midi_val_to_ratio(p.sustain),
              release |-> midi_val_to_time(p.release)],
             samplerate)

C14_EnvelopeUsesCurrentAdsrOnly ==
    [][(pc = "samples" /\ frame_index' = frame_index + 1)
       => LET Env(n) == EnvelopeOf(active_tones[n].time_pressed,
                                   active_tones[n].time_released,
                                   frame_index, ports)
              gone == {n \in DOMAIN active_tones : Env(n) = None}
          IN  /\ \A n \in DOMAIN active_tones :
                   /\ DOMAIN active_tones[n] =
                        {"phase_increment", "time_pressed", "time_released",
                         "velocity", "phase"}
                   /\ envelope(active_tones[n], frame_index, adsr, samplerate)
                        = Env(n)
              /\ finished_tones' = gone
              /\ value' = DOMAIN active_tones \ gone
              /\ DOMAIN active_tones' = DOMAIN active_tones \ gone]_vars

\* a voice released in an earlier block has come through a pass of a block
\* whose ADSR differs from the one in force when it was released
C14_Witness ==
    /\ pc = "samples"
    /\ frame_index > current_frame
    /\ \E n \in DOMAIN active_tones :
         /\ n \in adsr_moved
         /\ n \in value
         /\ active_tones[n].time_released[1] < current_frame

(* C15: when the for loop has applied a note-off, applying the same note-off
   once more as the next atom of the block leaves the voice pool as it is:
   the same voices with the same time_released, time_pressed, phase,
   phase_increment and velocity. *)
C15_NoteOffTwiceIsNoteOffOnce ==
    (AtomApplied /\ Message.kind = "NoteOff")
    => ApplyAtom(active_tones, <<atoms_read, Message>>) = active_tones

\* a voice pressed in an earlier block whose phase has advanced has just been
\* released, next to a second voice, and the block has a further atom to come
C15_Witness ==
    /\ AtomApplied /\ Accepted(Message) /\ Message.kind = "NoteOff"
    /\ atoms_left > 0
    /\ Cardinality(DOMAIN active_tones) = 2
    /\ Message.note \in DOMAIN active_tones
    /\ LET tone == active_tones[Message.note]
       IN  /\ tone.time_pressed < current_frame
           /\ tone.phase # Zero
           /\ tone.time_released = Some(current_frame)

(* C16: a pass of the sample loop removes a voice exactly when its envelope
   at the pass's frame is None, so it never removes a voice that has had no
   note-off; the for loop over the atoms removes no voice; and a note that
   has no voice gets one only when a note-on for it on the selected channel
   is applied. *)
C16_EnvelopeNoneIsTheOnlyRemoval ==
    [][/\ (pc = "samples" /\ frame_index' = frame_index + 1)
          => \A n \in DOMAIN active_tones :
               /\ n \notin DOMAIN active_tones'
                  <=> envelope(active_tones[n], frame_index, adsr, samplerate)
                        = None
               /\ ~Releasing(active_tones[n]) => n \in DOMAIN active_tones'
       /\ (pc = "drain" /\ pc' = "drain")
          => DOMAIN active_tones \subseteq DOMAIN active_tones'
       /\ \A n \in DOMAIN active_tones' \ DOMAIN active_tones :
            /\ pc = "drain" /\ atoms_read' = atoms_read + 1
            /\ atom'[2] \in {m \in Messages : m.kind = "NoteOn" /\ m.note = n
                                               /\ m.channel = input_channel}]_vars

\* one pass has removed a releasing voice and kept a voice held since an
\* earlier block
C16_Witness ==
    /\ pc = "samples"
    /\ frame_index > current_frame
    /\ finished_tones # {}
    /\ \E n \in DOMAIN active_tones :
         /\ ~Releasing(active_tones[n])
         /\ active_tones[n].time_pressed < current_frame

(* C17: a pass of the sample loop changes nothing of a voice it keeps but the
   phase; an iteration of the for loop that applies a note-off changes
   nothing of any voice but the time_released of the note's voice; and no
   step other than a note-on for its note on the selected channel changes
   the phase_increment or the velocity of a voice that stays in the pool. *)
C17_VoiceFieldsChangeOnlyAsAllowed ==
    [][\A n \in DOMAIN active_tones \cap DOMAIN active_tones' :
         LET tone == active_tones[n]
             after == active_tones'[n]
             NoteOnFor ==
                 /\ pc = "drain" /\ atoms_read' = atoms_read + 1
                 /\ atom'[2].kind = "NoteOn" /\ atom'[2].note = n
                 /\ atom'[2].channel = input_channel
         IN  /\ (pc = "samples" /\ frame_index' = frame_index + 1)
                => after = [tone EXCEPT !.phase = after.phase]
             /\ (pc = "drain" /\ atoms_read' = atoms_read + 1
                 /\ atom'[2].kind = "NoteOff")
                => /\ after = [tone EXCEPT !.time_released = after.time_released]
                   /\ n # atom'[2].note => after = tone
             /\ ~NoteOnFor
                => /\ after.phase_increment = tone.phase_increment
                   /\ after.velocity = tone.velocity]_vars

\* a voice started with velocity 64 in an earlier block, whose phase has
\* advanced, was released in this block and has come through a pass since
C17_Witness ==
    /\ pc = "samples"
    /\ frame_index > current_frame
    /\ \E n \in DOMAIN active_tones :
         LET tone == active_tones[n]
         IN  /\ tone.time_released = Some(current_frame)
             /\ tone.time_pressed < current_frame
             /\ tone.velocity = midi_val_to_ratio(64)
             /\ tone.phase # Zero
             /\ tone.phase_increment =
                  phase_increment_from_pitch(midi_note_to_pitch(n))

(* C18: in every state every voice of the pool has, as u32,
   time_pressed <= current_frame and, once released,
   time_pressed <= time_released <= current_frame; and at every frame the
   sample loop computes neither time stamp is above frame_index, so that no
   subtraction of envelope goes below zero. *)
C18_TimeStampsNeverAhead ==
    \A n \in DOMAIN active_tones :
        LET tone == active_tones[n]
        IN  /\ U32Le(tone.time_pressed, current_frame)
            /\ Releasing(tone)
               => /\ U32Le(tone.time_pressed, tone.time_released[1])
                  /\ U32Le(tone.time_released[1], current_frame)
            /\ (pc = "samples" /\ frame_index - current_frame < sample_count)
               => /\ U32Le(tone.time_pressed, frame_index)
                  /\ Releasing(tone) => U32Le(tone.time_released[1], frame_index)

(* C19: with attack > 0, a note-off for a voice pressed in the same block
   leaves it with time_released = time_pressed; such a voice has level
   ads(0) = 0 at its release and a release time of 0, no frame of the block
   has been computed with it in the pool, its envelope at the block's first
   frame is None, and the pass over that frame adds no term for it to the
   sample and removes it. *)
C19_PressedAndReleasedIsNeverHeard ==
    [][/\ (/\ pc = "drain" /\ atoms_read' = atoms_read + 1
           /\ atom'[2].kind = "NoteOff" /\ atom'[2].channel = input_channel
           /\ atom'[2].note \in DOMAIN active_tones
           /\ active_tones[atom'[2].note].time_pressed = current_frame)
          => active_tones'[atom'[2].note].time_released
               = Some(active_tones'[atom'[2].note].time_pressed)
       /\ \A n \in DOMAIN active_tones :
            LET tone == active_tones[n]
            IN  (tone.time_released = Some(tone.time_pressed)
                 /\ RLt(Zero, adsr.attack))
                => /\ ads(adsr, Zero) = Zero
                   /\ ReleaseFrames(tone) = Zero
                   /\ tone.time_pressed = current_frame
                   /\ pc = "samples" => frame_index = current_frame
                   /\ envelope(tone, Clock, adsr, samplerate) = None
                   /\ (pc = "samples" /\ frame_index' = frame_index + 1)
                      => /\ n \notin value'
                         /\ n \in finished_tones'
                         /\ n \notin DOMAIN active_tones']_vars

\* the sample loop is about to compute the first frame of a block that
\* pressed and released one note while another, pressed earlier, sounds on
C19_Witness ==
    /\ pc = "samples"
    /\ frame_index = current_frame
    /\ sample_count > 0
    /\ current_frame > 0
    /\ RLt(Zero, adsr.attack)
    /\ \E n, k \in DOMAIN active_tones :
         /\ active_tones[n].time_pressed = current_frame
         /\ active_tones[n].time_released = Some(current_frame)
         /\ n \in Finished(active_tones, frame_index)
         /\ active_tones[k].time_pressed < current_frame
         /\ k \notin Finished(active_tones, frame_index)

====
